---- MODULE Spec2Model ----
(***************************************************************************)
(* A model of DevTroli/calculator-api: the Calculator and CalculatorUsers  *)
(* classes of calculator.py and the request handlers of FastAPI_Rest.py.   *)
(*                                                                         *)
(* Python values are modelled by what the interpreter does with them:      *)
(*   - a dict is an object on a heap, named by its address; a variable or  *)
(*     a dict slot holds the address, so two holders of one address see    *)
(*     each other's writes;                                                *)
(*   - an exception is a record of its class and message, and an except    *)
(*     clause catches it by class (IsInstance);                            *)
(*   - a number is a fraction in lowest terms, which is exact for the      *)
(*     small integers drawn here and for their quotients.                  *)
(***************************************************************************)
EXTENDS Integers, FiniteSets, Sequences, TLC

VARIABLES
    heap,       \* address -> dict contents [id, name]; Free when unallocated
    User,       \* CalculatorUsers.User: id -> address of the stored dict
    user,       \* a direct caller's variable bound to a returned dict (0: unbound)
    out,        \* the last call of a core method and its outcome
    resp,       \* the last HTTP response of the boundary layer
    written,    \* history: id -> name given by the latest successful create/update
                \* since the id was last absent ("": none)
    deleted     \* history: ids whose latest successful create/delete was a delete

vars == <<heap, User, user, out, resp, written, deleted>>

----------------------------------------------------------------------------
(* Bounds of the model *)

MaxId == 2
MaxInt == 2

Ids == 1..MaxId
\* Names the tests of test_calculator.py give.
Names == {"John Doe", "John Smith"}
Ints == (0 - MaxInt)..MaxInt
NumObj == MaxId + 1
Addrs == 1..NumObj

----------------------------------------------------------------------------
(* Python values *)

Free == [id |-> 0, name |-> ""]

NoExc == [type |-> "None", msg |-> "None"]

ValueError(m) == [type |-> "ValueError", msg |-> m]

\* isinstance(e, cls) for the classes the except clauses name.
IsInstance(e, cls) ==
    /\ e # NoExc
    /\ \/ cls = "Exception"
       \/ e.type = cls
       \/ cls = "ArithmeticError" /\ e.type = "ZeroDivisionError"

Abs(n) == IF n < 0 THEN 0 - n ELSE n

RECURSIVE GCD(_, _)
GCD(m, n) == IF n = 0 THEN m ELSE GCD(n, m % n)

\* The number n / d (d # 0) in lowest terms, with a positive denominator.
Frac(n, d) ==
    LET g == GCD(Abs(n), Abs(d))
        s == IF d < 0 THEN 0 - 1 ELSE 1
    IN  [num |-> (s * n) \div g, den |-> (s * d) \div g]

Num(n) == [num |-> n, den |-> 1]

NoVal == Num(0)

----------------------------------------------------------------------------
(* class Calculator: each method yields [exc, val] *)

Returns(v) == [exc |-> NoExc, val |-> v]

sum(a, b) == Returns(Num(a + b))

\* A subtraction with its operands exchanged.
substration_swapped(a, b) == Returns(Num(b - a))

substration(a, b) == Returns(Num(a - b))

times(a, b) == Returns(Num(a * b))

division(a, b) ==
    IF b = 0
    THEN [exc |-> ValueError("Divisão por zero não é permitido"), val |-> NoVal]
    ELSE Returns(Frac(a, b))

----------------------------------------------------------------------------
(* class CalculatorUsers: each method yields the heap and the mapping it   *)
(* leaves, the exception it raised (NoExc: none) and the address returned  *)
(* (0: None).                                                              *)

Range(U) == {U[i] : i \in DOMAIN U}

Roots == Range(User) \cup ({user} \ {0})

\* The address of a freshly allocated dict {"id": id, ...}: one nothing refers
\* to. Which one is the allocator's business; here the one numbered id when it
\* is unused, else the lowest unused one.
NewDict(id) ==
    IF id \notin Roots
    THEN id
    ELSE CHOOSE a \in Addrs \ Roots : \A b \in Addrs \ Roots : a <= b

Raise(e) == [heap |-> heap, User |-> User, exc |-> e, ret |-> 0]

\* A create without the check for an existing id: it overwrites.
create_overwrite(id, name) ==
    LET a == NewDict(id)
    IN  [heap |-> [heap EXCEPT ![a] = [id |-> id, name |-> name]],
         User |-> [i \in DOMAIN User \cup {id} |-> IF i = id THEN a ELSE User[i]],
         exc |-> NoExc,
         ret |-> a]

create(id, name) ==
    IF id \in DOMAIN User
    THEN Raise(ValueError("ID already exist"))
    ELSE LET a == NewDict(id)
         IN  [heap |-> [heap EXCEPT ![a] = [id |-> id, name |-> name]],
              User |-> [i \in DOMAIN User \cup {id} |->
                            IF i = id THEN a ELSE User[i]],
              exc |-> NoExc,
              ret |-> a]

\* A read without the check for an absent id: the dict lookup raises KeyError.
read_unchecked(id) ==
    IF id \notin DOMAIN User
    THEN Raise([type |-> "KeyError", msg |-> "id"])
    ELSE [heap |-> heap, User |-> User, exc |-> NoExc, ret |-> User[id]]

read(id) ==
    IF id \notin DOMAIN User
    THEN Raise(ValueError("User is not found"))
    ELSE [heap |-> heap, User |-> User, exc |-> NoExc, ret |-> User[id]]

\* An update that returns the record without writing the new name.
update_unwritten(id, new_name) ==
    IF id \notin DOMAIN User
    THEN Raise(ValueError("User is not found"))
    ELSE [heap |-> heap, User |-> User, exc |-> NoExc, ret |-> User[id]]

\* An update that stores a new dict holding the name alone.
update_replaced(id, new_name) ==
    IF id \notin DOMAIN User
    THEN Raise(ValueError("User is not found"))
    ELSE [heap |-> [heap EXCEPT ![User[id]] = [id |-> 0, name |-> new_name]],
          User |-> User,
          exc |-> NoExc,
          ret |-> User[id]]

\* An update that inserts the record when the id is absent.
update_upsert(id, new_name) ==
    IF id \notin DOMAIN User
    THEN create_overwrite(id, new_name)
    ELSE [heap |-> [heap EXCEPT ![User[id]].name = new_name],
          User |-> User,
          exc |-> NoExc,
          ret |-> User[id]]

update(id, new_name) ==
    IF id \notin DOMAIN User
    THEN Raise(ValueError("User is not found"))
    ELSE [heap |-> [heap EXCEPT ![User[id]].name = new_name],
          User |-> User,
          exc |-> NoExc,
          ret |-> User[id]]

\* A delete that checks the id and removes nothing.
delete_kept(id) ==
    IF id \notin DOMAIN User
    THEN Raise(ValueError("User is not found"))
    ELSE [heap |-> heap, User |-> User, exc |-> NoExc, ret |-> 0]

\* A delete that empties the mapping.
delete_all(id) ==
    IF id \notin DOMAIN User
    THEN Raise(ValueError("User is not found"))
    ELSE [heap |-> heap, User |-> [i \in {} |-> 0], exc |-> NoExc, ret |-> 0]

delete(id) ==
    IF id \notin DOMAIN User
    THEN Raise(ValueError("User is not found"))
    ELSE [heap |-> heap,
          User |-> [i \in DOMAIN User \ {id} |-> User[i]],
          exc |-> NoExc,
          ret |-> 0]

----------------------------------------------------------------------------
(* The state after construction *)

Called(op, id, name, a, b, exc, ref, val) ==
    [op |-> op, id |-> id, name |-> name, a |-> a, b |-> b,
     exc |-> exc, ref |-> ref, val |-> val]

NoCall == Called("none", 0, "", 0, 0, NoExc, 0, NoVal)

NoResp ==
    [status |-> 0, detail |-> <<>>, result |-> NoVal, user |-> Free, message |-> ""]

Init ==
    /\ heap = [a \in Addrs |-> Free]
    /\ User = [i \in {} |-> 0]
    /\ user = 0
    /\ out = NoCall
    /\ resp = NoResp
    /\ written = [i \in Ids |-> ""]
    /\ deleted = {}

----------------------------------------------------------------------------
(* A call of a CalculatorUsers method by Python code holding the instance  *)

\* Reference counting: a dict nothing refers to any more is freed.
Collect(h, roots) == [a \in Addrs |-> IF a \in roots THEN h[a] ELSE Free]

\* The state a call leaves: outcome o of method op on (id, name); with bind the
\* caller assigns a returned dict to its variable (user = db.read(1)).
Settle(op, id, name, o, bind) ==
    LET keep == bind /\ o.exc = NoExc /\ o.ret # 0
        u == IF keep THEN o.ret ELSE user
        ok == o.exc = NoExc
    IN  /\ User' = o.User
        /\ user' = u
        /\ heap' = Collect(o.heap, Range(o.User) \cup ({u} \ {0}))
        /\ out' = Called(op, id, name, 0, 0, o.exc, o.ret, NoVal)
        /\ written' = IF ok /\ op \in {"create", "update"}
                      THEN [written EXCEPT ![id] = name]
                      ELSE IF ok /\ op = "delete"
                      THEN [written EXCEPT ![id] = ""]
                      ELSE written
        /\ deleted' = IF ok /\ op = "delete" THEN deleted \cup {id}
                      ELSE IF ok /\ op = "create" THEN deleted \ {id}
                      ELSE deleted

\* The state a call of a Calculator method leaves: it has no access to the store.
Computed(op, a, b, r) ==
    /\ out' = Called(op, 0, "", a, b, r.exc, 0, r.val)
    /\ UNCHANGED <<heap, User, user, written, deleted>>

CallCreate(id, name, bind) ==
    Settle("create", id, name, create(id, name), bind) /\ UNCHANGED resp

CallRead(id, bind) ==
    Settle("read", id, "", read(id), bind) /\ UNCHANGED resp

CallUpdate(id, new_name, bind) ==
    Settle("update", id, new_name, update(id, new_name), bind) /\ UNCHANGED resp

CallDelete(id) ==
    Settle("delete", id, "", delete(id), FALSE) /\ UNCHANGED resp

CallSum(a, b) == Computed("sum", a, b, sum(a, b)) /\ UNCHANGED resp

CallSubstration(a, b) ==
    Computed("substration", a, b, substration(a, b)) /\ UNCHANGED resp

CallTimes(a, b) == Computed("times", a, b, times(a, b)) /\ UNCHANGED resp

CallDivision(a, b) == Computed("division", a, b, division(a, b)) /\ UNCHANGED resp

Next ==
    \/ \E id \in Ids, name \in Names, bind \in BOOLEAN : CallCreate(id, name, bind)
    \/ \E id \in Ids, bind \in BOOLEAN : CallRead(id, bind)
    \/ \E id \in Ids, name \in Names, bind \in BOOLEAN : CallUpdate(id, name, bind)
    \/ \E id \in Ids : CallDelete(id)

Spec == Init /\ [][Next]_vars

CalcNext ==
    \/ \E a \in Ints, b \in Ints : CallSum(a, b)
    \/ \E a \in Ints, b \in Ints : CallSubstration(a, b)
    \/ \E a \in Ints, b \in Ints : CallTimes(a, b)
    \/ \E a \in Ints, b \in Ints : CallDivision(a, b)

CalcSpec == Init /\ [][CalcNext]_vars

----------------------------------------------------------------------------
(* The boundary layer: one action per request handler of FastAPI_Rest.py   *)

Response(status, detail, result, rec, message) ==
    [status |-> status, detail |-> detail, result |-> result, user |-> rec,
     message |-> message]

HTTPException(status_code, detail) == Response(status_code, detail, NoVal, Free, "")

\* An exception no except clause of the handler catches: the framework's answer.
Unhandled == Response(500, <<"Internal Server Error">>, NoVal, Free, "")

api_sum(a, b) ==
    LET r == sum(a, b)
    IN  /\ Computed("sum", a, b, r)
        /\ resp' = IF r.exc = NoExc
                   THEN Response(200, <<>>, r.val, Free, "")
                   ELSE IF IsInstance(r.exc, "Exception")
                   THEN HTTPException(400, <<"Calculation error: ", r.exc.msg>>)
                   ELSE Unhandled

api_subtract(a, b) ==
    LET r == substration(a, b)
    IN  /\ Computed("substration", a, b, r)
        /\ resp' = IF r.exc = NoExc
                   THEN Response(200, <<>>, r.val, Free, "")
                   ELSE IF IsInstance(r.exc, "Exception")
                   THEN HTTPException(400, <<"Calculation error: ", r.exc.msg>>)
                   ELSE Unhandled

api_divide(a, b) ==
    LET r == division(a, b)
    IN  /\ Computed("division", a, b, r)
        /\ resp' = IF r.exc = NoExc
                   THEN Response(200, <<>>, r.val, Free, "")
                   ELSE IF IsInstance(r.exc, "ZeroDivisionError")
                   THEN HTTPException(400, <<"Division by zero is not allowed">>)
                   ELSE IF IsInstance(r.exc, "Exception")
                   THEN HTTPException(400, <<"Calculation error: ", r.exc.msg>>)
                   ELSE Unhandled

create_user(user_id, name) ==
    LET o == create(user_id, name)
    IN  /\ Settle("create", user_id, name, o, FALSE)
        /\ resp' = IF o.exc = NoExc
                   THEN Response(200, <<>>, NoVal, o.heap[o.ret], "")
                   ELSE IF IsInstance(o.exc, "ValueError")
                   THEN HTTPException(400, <<"User creation failed: ", o.exc.msg>>)
                   ELSE Unhandled

get_user(user_id) ==
    LET o == read(user_id)
    IN  /\ Settle("read", user_id, "", o, FALSE)
        /\ resp' = IF o.exc = NoExc
                   THEN Response(200, <<>>, NoVal, o.heap[o.ret], "")
                   ELSE IF IsInstance(o.exc, "ValueError")
                   THEN HTTPException(404, <<"User not found: ", o.exc.msg>>)
                   ELSE Unhandled

update_user(user_id, name) ==
    LET o == update(user_id, name)
    IN  /\ Settle("update", user_id, name, o, FALSE)
        /\ resp' = IF o.exc = NoExc
                   THEN Response(200, <<>>, NoVal, o.heap[o.ret], "")
                   ELSE IF IsInstance(o.exc, "ValueError")
                   THEN HTTPException(404, <<"User update failed: ", o.exc.msg>>)
                   ELSE Unhandled

delete_user(user_id) ==
    LET o == delete(user_id)
    IN  /\ Settle("delete", user_id, "", o, FALSE)
        /\ resp' = IF o.exc = NoExc
                   THEN Response(200, <<>>, NoVal, Free, "User successfully deleted")
                   ELSE IF IsInstance(o.exc, "ValueError")
                   THEN HTTPException(404, <<"User deletion failed: ", o.exc.msg>>)
                   ELSE Unhandled

ApiNext ==
    \/ \E a \in Ints, b \in Ints : api_sum(a, b)
    \/ \E a \in Ints, b \in Ints : api_subtract(a, b)
    \/ \E a \in Ints, b \in Ints : api_divide(a, b)
    \/ \E user_id \in Ids, name \in Names : create_user(user_id, name)
    \/ \E user_id \in Ids : get_user(user_id)
    \/ \E user_id \in Ids, name \in Names : update_user(user_id, name)
    \/ \E user_id \in Ids : delete_user(user_id)

ApiSpec == Init /\ [][ApiNext]_vars

----------------------------------------------------------------------------
(* The error taxonomy of the specification, as the code signals it *)

DuplicateKey == ValueError("ID already exist")

NotFound == ValueError("User is not found")

Present(id) == id \in DOMAIN User

\* The stored Record of a present id, before and after a step.
Record(id) == heap[User[id]]

RecordAfter(id) == heap'[User'[id]]

StoreOps == {"create", "read", "update", "delete"}

CalcOps == {"sum", "substration", "times", "division"}

----------------------------------------------------------------------------
(* C1: for every a, divide(a, 0) is answered 400 by the divide handler's     *)
(* branch for division by zero, with that branch's message, and not by its   *)
(* generic calculation-error branch.                                         *)
C1_DivideByZeroSpecificBranch ==
    (out.op = "division" /\ out.b = 0) =>
        /\ resp.status = 400
        /\ resp.detail = <<"Division by zero is not allowed">>

(* C2: create(id, name) fails with DuplicateKey exactly when id is present;  *)
(* a failing create leaves the stored record, and so the name the first      *)
(* create gave, as it was; a succeeding create inserts {id, name} under id   *)
(* and returns it.                                                           *)
C2_CreateStep ==
    out'.op = "create" =>
        LET id == out'.id
        IN  /\ (out'.exc = DuplicateKey) <=> Present(id)
            /\ out'.exc \in {DuplicateKey, NoExc}
            /\ Present(id) =>
                   /\ User' = User
                   /\ RecordAfter(id) = Record(id)
            /\ ~Present(id) =>
                   /\ DOMAIN User' = DOMAIN User \cup {id}
                   /\ RecordAfter(id) = [id |-> id, name |-> out'.name]
                   /\ out'.ref = User'[id]

\* C2: every create step fails exactly on a present id and otherwise inserts
\* and returns {id, name}.
C2_Create == [][C2_CreateStep]_vars

\* A second create of a present id, with another name, has failed and the
\* record still has the first name.
C2_Witness ==
    /\ out.op = "create"
    /\ out.exc = DuplicateKey
    /\ Present(out.id)
    /\ Record(out.id).name # out.name

(* C3: every stored record is {id, name} with the name given by the most     *)
(* recent successful create or update of its id; a read of a present id      *)
(* succeeds and returns that record, and an update returns the record with   *)
(* the new name.                                                             *)
C3_ReadReturnsLatest ==
    /\ \A i \in DOMAIN User : Record(i) = [id |-> i, name |-> written[i]]
    /\ (out.op = "read" /\ Present(out.id)) =>
           /\ out.exc = NoExc
           /\ heap[out.ref] = [id |-> out.id, name |-> written[out.id]]
    /\ (out.op = "update" /\ out.exc = NoExc) =>
           /\ Present(out.id)
           /\ Record(out.id) = [id |-> out.id, name |-> out.name]

\* A read of one of two present ids has returned its record.
C3_Witness ==
    /\ out.op = "read"
    /\ out.exc = NoExc
    /\ heap[out.ref].name = "John Smith"
    /\ Cardinality(DOMAIN User) = 2

(* C4: once delete(id) has succeeded, every read, update and delete of id    *)
(* fails with NotFound, and id stays absent, until a create of id succeeds,  *)
(* whatever is done to other ids meanwhile.                                  *)
C4_DeletedStep ==
    \A i \in deleted :
        (out'.id = i /\ out'.op \in {"read", "update", "delete"}) =>
            /\ out'.exc = NotFound
            /\ ~(i \in DOMAIN User')

\* C4: a deleted id is absent, and each read, update and delete of it fails
\* with NotFound, until a create of it succeeds.
C4_DeletedStaysAbsent ==
    /\ [](\A i \in deleted : ~Present(i))
    /\ [][C4_DeletedStep]_vars

\* A read of a deleted id has failed while another id is in the store.
C4_Witness ==
    /\ out.op = "read"
    /\ out.id \in deleted
    /\ out.exc = NotFound
    /\ DOMAIN User # {}

(* C5: read, update and delete of an absent id fail with NotFound, and a     *)
(* failing store operation (those, and create of a present id) leaves the    *)
(* mapping and every stored record as they were.                             *)
C5_FailStep ==
    /\ (out'.op \in {"read", "update", "delete"} /\ ~Present(out'.id)) =>
           out'.exc = NotFound
    /\ (out'.op \in StoreOps /\ out'.exc # NoExc) =>
           /\ User' = User
           /\ \A i \in DOMAIN User : RecordAfter(i) = Record(i)

\* C5: every step on an absent id fails with NotFound and every failing step
\* leaves the mapping as it was.
C5_FailureChangesNothing == [][C5_FailStep]_vars

\* An update of an absent id has failed on a store that holds a record.
C5_Witness ==
    /\ out.op = "update"
    /\ out.exc = NotFound
    /\ ~Present(out.id)
    /\ DOMAIN User # {}

(* C6: the store holds at most one Record per id, the Record stored under    *)
(* key k has id k, and no step changes the id of a Record: update changes    *)
(* its name alone.                                                           *)
C6_KeyedInv ==
    /\ \A k \in DOMAIN User : Record(k).id = k
    /\ \A k \in Ids : Cardinality({a \in Range(User) : heap[a].id = k}) <= 1
    /\ \A j \in DOMAIN User, k \in DOMAIN User : User[j] = User[k] => j = k

C6_IdStep ==
    /\ \A a \in Addrs : (heap[a] # Free /\ heap'[a] # Free) => heap'[a].id = heap[a].id
    /\ (out'.op = "update" /\ out'.exc = NoExc) =>
           /\ User' = User
           /\ \A k \in DOMAIN User \ {out'.id} : RecordAfter(k) = Record(k)
           /\ RecordAfter(out'.id) = [Record(out'.id) EXCEPT !.name = out'.name]

\* C6: always one Record per id, stored under its own id, and no step changes
\* a Record's id.
C6_OneRecordPerId ==
    /\ []C6_KeyedInv
    /\ [][C6_IdStep]_vars

\* Two records are stored and an update has renamed one of them.
C6_Witness ==
    /\ Cardinality(DOMAIN User) = 2
    /\ out.op = "update"
    /\ out.exc = NoExc
    /\ \E k \in DOMAIN User : Record(k).name # Record(out.id).name

(* C7: a Record value handed back by create, read or update is not the       *)
(* store's own record: no later call changes a value a caller was handed     *)
(* earlier and still holds.                                                  *)
C7_ReturnedStep == (user # 0 /\ user' = user) => heap'[user] = heap[user]

\* C7: no step changes the value a caller was handed and still holds.
C7_ReturnedValueIsolated == [][C7_ReturnedStep]_vars

(* C8: the boundary layer answers division by zero with 400, create of a     *)
(* present id with 400, read, update and delete of an absent id with 404 and *)
(* every success with 200; every core failure gets a 4xx answer, leaves the  *)
(* store as it was, and the service goes on accepting every request.         *)
C8_AnswerStep ==
    /\ (out'.op = "division" /\ out'.b = 0) => resp'.status = 400
    /\ (out'.op = "create" /\ Present(out'.id)) => resp'.status = 400
    /\ (out'.op \in {"read", "update", "delete"} /\ ~Present(out'.id)) =>
           resp'.status = 404
    /\ (out'.exc = NoExc) <=> (resp'.status = 200)
    /\ (out'.exc # NoExc) =>
           /\ resp'.status \in {400, 404}
           /\ Len(resp'.detail) > 0
           /\ User' = User
           /\ \A i \in DOMAIN User : RecordAfter(i) = Record(i)

C8_Serving ==
    /\ \A a \in Ints, b \in Ints :
           ENABLED api_sum(a, b) /\ ENABLED api_subtract(a, b) /\ ENABLED api_divide(a, b)
    /\ \A i \in Ids : ENABLED get_user(i) /\ ENABLED delete_user(i)
    /\ \A i \in Ids, n \in Names : ENABLED create_user(i, n) /\ ENABLED update_user(i, n)

C9_FrameStep ==
    LET id == out'.id
        ok == out'.exc = NoExc
    IN  /\ (DOMAIN User' \ DOMAIN User # {}) =>
               /\ out'.op = "create" /\ ok
               /\ ~Present(id)
               /\ DOMAIN User' = DOMAIN User \cup {id}
        /\ (DOMAIN User \ DOMAIN User' # {}) =>
               /\ out'.op = "delete" /\ ok
               /\ Present(id)
               /\ DOMAIN User' = DOMAIN User \ {id}
        /\ (out'.op = "create" /\ ok) => DOMAIN User' = DOMAIN User \cup {id}
        /\ (out'.op = "delete" /\ ok) => DOMAIN User' = DOMAIN User \ {id}
        /\ out'.op = "read" =>
               /\ User' = User
               /\ \A i \in DOMAIN User : RecordAfter(i) = Record(i)
        /\ (out'.op = "update" /\ ok) =>
               /\ User' = User
               /\ RecordAfter(id).id = Record(id).id
        /\ \A i \in Ids \ {id} :
               /\ Present(i) <=> i \in DOMAIN User'
               /\ Present(i) => RecordAfter(i) = Record(i)
        /\ out'.op \in CalcOps =>
               /\ User' = User
               /\ heap' = heap

\* C9: every step changes the store only as its operation says.
C9_NoImplicitChange == [][C9_FrameStep]_vars

\* A delete has removed one record and the other is still stored.
C9_Witness ==
    /\ out.op = "delete"
    /\ out.exc = NoExc
    /\ DOMAIN User = Ids \ {out.id}

(* C10: for all integers a and b of the bounded set, sum returns a + b,      *)
(* subtract returns a - b and multiply returns a * b, none of them fails,    *)
(* and divide by a nonzero b that divides a returns the exact quotient.      *)
C10_Arithmetic ==
    /\ out.op = "sum" => out.exc = NoExc /\ out.val = Num(out.a + out.b)
    /\ out.op = "substration" => out.exc = NoExc /\ out.val = Num(out.a - out.b)
    /\ out.op = "times" => out.exc = NoExc /\ out.val = Num(out.a * out.b)
    /\ (out.op = "division" /\ out.b # 0 /\ Abs(out.a) % Abs(out.b) = 0) =>
           /\ out.exc = NoExc
           /\ out.val.den = 1
           /\ out.val.num * out.b = out.a

\* A division of a negative number by a divisor other than 1 that divides it.
C10_Witness ==
    /\ out.op = "division"
    /\ out.a < 0
    /\ out.b > 1
    /\ out.exc = NoExc
    /\ out.val.den = 1

====
